---------------------------- MODULE Spec2Model ----------------------------
(***************************************************************************)
(* Inference-server discovery and routing of the webapp:                   *)
(*   lib/db/inference-host-source.ts  (src/unnamed/part_001, the version   *)
(*       with normalizeModelName / isModelMatch / clearInferenceServerCache*)
(*       at lines 273-610; lines 1-271 hold an older copy of the file)     *)
(*   app/api/admin/inference-servers/route.ts (GET / POST)                 *)
(*                                                                         *)
(* Strings are TLA+ strings; a character is a string of length 1.          *)
(***************************************************************************)
EXTENDS Integers, Sequences, FiniteSets, TLC

VARIABLES
    USE_LOCALHOST_INFERENCE, \* env flag: TRUE = dynamic discovery, FALSE = catalog
    IS_DOCKER_COMPOSE,       \* env flag selecting the base URL
    _cachedServers,          \* module-level cache: sequence of InferenceServerInfo
    _lastDiscovery,          \* module-level cache: time of the cycle that wrote it
    clock,                   \* what Date.now() returns
    listening,               \* ports on which an inference server process listens
    calls,                   \* the invocations: one record per call slot
    lastWriter,              \* history: call whose cycle wrote the cache (0: none/cleared)
    clears,                  \* history: number of clearInferenceServerCache calls
    catalog,                 \* Host Catalog: host URLs registered for the source set
    name, norm1, norm2,      \* pure-function harness: normalizeModelName
    req, snap, out,          \* pure-function harness: matcher
    phase,                   \* pure-function harness: position
    response                 \* admin endpoint: the last response to a POST without refresh

vars == <<USE_LOCALHOST_INFERENCE, IS_DOCKER_COMPOSE, _cachedServers, _lastDiscovery,
          clock, listening, calls, lastWriter, clears, catalog,
          name, norm1, norm2, req, snap, out, phase, response>>

progVars == <<USE_LOCALHOST_INFERENCE, IS_DOCKER_COMPOSE, _cachedServers, _lastDiscovery,
              clock, listening, calls, lastWriter, clears, catalog>>

\* what the steps of discovery and of the selector never touch
pureVars == <<name, norm1, norm2, req, snap, out, phase, response>>

Null == "<null>"

(***************************************************************************)
(* String helpers (JavaScript String methods, by what they do).            *)
(***************************************************************************)
CharAt(s, i) == SubSeq(s, i, i)

\* String.prototype.toLowerCase on one character (ASCII)
toLowerCaseChar(c) ==
    CASE c = "A" -> "a" [] c = "B" -> "b" [] c = "C" -> "c" [] c = "D" -> "d"
      [] c = "E" -> "e" [] c = "F" -> "f" [] c = "G" -> "g" [] c = "H" -> "h"
      [] c = "I" -> "i" [] c = "J" -> "j" [] c = "K" -> "k" [] c = "L" -> "l"
      [] c = "M" -> "m" [] c = "N" -> "n" [] c = "O" -> "o" [] c = "P" -> "p"
      [] c = "Q" -> "q" [] c = "R" -> "r" [] c = "S" -> "s" [] c = "T" -> "t"
      [] c = "U" -> "u" [] c = "V" -> "v" [] c = "W" -> "w" [] c = "X" -> "x"
      [] c = "Y" -> "y" [] c = "Z" -> "z"
      [] OTHER -> c

\* the characters [a-z0-9]
AlnumChars ==
    {"a", "b", "c", "d", "e", "f", "g", "h", "i",
     "j", "k", "l", "m", "n", "o", "p", "q", "r",
     "s", "t", "u", "v", "w", "x", "y", "z", "0",
     "1", "2", "3", "4", "5", "6", "7", "8", "9"}

RECURSIVE toLowerCase(_)
toLowerCase(s) ==
    IF Len(s) = 0 THEN ""
    ELSE toLowerCaseChar(CharAt(s, 1)) \o toLowerCase(SubSeq(s, 2, Len(s)))

\* .replace(/[^a-z0-9]/g, '')
RECURSIVE stripNonAlnum(_)
stripNonAlnum(s) ==
    IF Len(s) = 0 THEN ""
    ELSE (IF CharAt(s, 1) \in AlnumChars THEN CharAt(s, 1) ELSE "")
         \o stripNonAlnum(SubSeq(s, 2, Len(s)))

\* .replace(/pat/g, rep) for a literal pattern: one left-to-right pass over the
\* input, non-overlapping matches, the replacement text is not rescanned.
RECURSIVE replaceAll(_, _, _)
replaceAll(s, pat, rep) ==
    IF Len(s) < Len(pat) THEN s
    ELSE IF SubSeq(s, 1, Len(pat)) = pat
         THEN rep \o replaceAll(SubSeq(s, Len(pat) + 1, Len(s)), pat, rep)
         ELSE CharAt(s, 1) \o replaceAll(SubSeq(s, 2, Len(s)), pat, rep)

\* .split(/[-_]/): the pieces between separators; "" splits to <<"">>.
RECURSIVE splitFrom(_, _, _)
splitFrom(s, i, cur) ==
    IF i > Len(s) THEN <<cur>>
    ELSE IF CharAt(s, i) \in {"-", "_"}
         THEN <<cur>> \o splitFrom(s, i + 1, "")
         ELSE splitFrom(s, i + 1, cur \o CharAt(s, i))

split(s) == splitFrom(s, 1, "")

\* Array.prototype.includes
includes(arr, x) == \E i \in 1..Len(arr) : arr[i] = x

\* Array.prototype.filter(...).length
RECURSIVE filterCount(_, _)
filterCount(arr, other) ==
    IF Len(arr) = 0 THEN 0
    ELSE (IF includes(other, Head(arr)) THEN 1 ELSE 0) + filterCount(Tail(arr), other)

(***************************************************************************)
(* normalizeModelName, isModelMatch                                        *)
(***************************************************************************)
normalizeModelName(modelName) ==
    replaceAll(
      replaceAll(
        replaceAll(
          replaceAll(stripNonAlnum(toLowerCase(modelName)), "small", ""),
          "large", ""),
        "instruct", "it"),
      "instruction", "it")

isModelMatch(serverModel, requestedModel) ==
    IF serverModel = requestedModel THEN TRUE
    ELSE IF normalizeModelName(serverModel) = normalizeModelName(requestedModel) THEN TRUE
    ELSE LET serverParts == split(normalizeModelName(serverModel))
             requestedParts == split(normalizeModelName(requestedModel))
             serverCore == serverParts[1]
             requestedCore == requestedParts[1]
         IN  IF serverCore = requestedCore
             THEN filterCount(serverParts, requestedParts) >= 2
             ELSE FALSE


(***************************************************************************)
(* Configuration and descriptors                                           *)
(***************************************************************************)
LOCALHOST_INFERENCE_HOST ==
    IF IS_DOCKER_COMPOSE THEN "http://inference:5002" ELSE "http://127.0.0.1:5002"

DISCOVERY_CACHE_TTL == 30000

FirstPort == 5002
ScanFrom == 5005
ScanTo == 5020

\* variant of portsToCheck that scans on from the first port without a gap
portsToCheckNoGap == [i \in 1..(ScanTo - FirstPort + 1) |-> FirstPort + i - 1]

\* const portsToCheck = [5002]; for (port = 5005; port <= 5020; port++) push(port)
portsToCheck == <<FirstPort>> \o [i \in 1..(ScanTo - ScanFrom + 1) |-> ScanFrom + i - 1]

baseUrl == IF IS_DOCKER_COMPOSE THEN "http://inference" ELSE "http://127.0.0.1"

\* const url = `${baseUrl}:${port}`
urlOf(port) == baseUrl \o ":" \o ToString(port)

\* servers.push({ port, modelId, url, health: true })
InferenceServerInfo(port, modelId) ==
    [port |-> port, modelId |-> modelId, url |-> urlOf(port), health |-> TRUE]

(***************************************************************************)
(* getInferenceServerForModel, after its `await discoverInferenceServers()`:*)
(* servers is the snapshot that call returned.                             *)
(***************************************************************************)
\* Array.prototype.find: index of the first element satisfying the test, 0 if none
firstIndex(S) == IF S = {} THEN 0 ELSE CHOOSE i \in S : \A j \in S : i <= j

\* variant of getInferenceServerForModel without the fallback to the first
\* healthy server
getInferenceServerForModelNoFallback(servers, modelId) ==
    LET exactMatch == firstIndex({i \in 1..Len(servers) :
                          servers[i].health /\ isModelMatch(servers[i].modelId, modelId)})
    IN  IF exactMatch # 0 THEN servers[exactMatch].url ELSE Null

\* variant of getInferenceServerForModel that takes the first healthy server
\* whatever it serves
getInferenceServerForModelFirstHealthy(servers, modelId) ==
    LET fallback == firstIndex({i \in 1..Len(servers) : servers[i].health})
    IN  IF fallback # 0 THEN servers[fallback].url ELSE Null

getInferenceServerForModel(servers, modelId) ==
    LET exactMatch == firstIndex({i \in 1..Len(servers) :
                          servers[i].health /\ isModelMatch(servers[i].modelId, modelId)})
        fallback == firstIndex({i \in 1..Len(servers) : servers[i].health})
    IN  IF exactMatch # 0 THEN servers[exactMatch].url
        ELSE IF fallback # 0 THEN servers[fallback].url
        ELSE Null

\* variant of dynamicHostOr that hands on what the matcher returned
dynamicHostAsIs(dynamicHost) == dynamicHost

\* getDynamicLocalhostInferenceHost, after its await: dynamicHost || LOCALHOST
dynamicHostOr(dynamicHost) ==
    IF dynamicHost = Null \/ dynamicHost = "" THEN LOCALHOST_INFERENCE_HOST ELSE dynamicHost

(***************************************************************************)
(* Inputs of the pure-function harness                                     *)
(***************************************************************************)
MaxFrags == 3
MaxSnap == 2

NameFragments == {"small", "large", "instruct", "s", "mall", "l", "arge", "-", "gpt2", "Gemma"}

RECURSIVE Concats(_)
Concats(n) ==
    IF n = 0 THEN {""}
    ELSE LET shorter == Concats(n - 1)
         IN  shorter \cup {a \o f : a \in shorter, f \in NameFragments}

\* model identifiers of the documentation's examples
MatchNames == {"gpt2-small", "gpt2", "gemma-2-2b", "gemma-2-2b-it", "GPT2-Small"}

SnapPorts == {portsToCheck[i] : i \in 1..MaxSnap}

\* Snapshots a discovery cycle can produce: each port at most once, in any
\* completion order, health always true.
Snapshots ==
    LET seqs == UNION {[1..n -> SnapPorts \X MatchNames] : n \in 0..MaxSnap}
    IN  {[i \in 1..Len(q) |-> InferenceServerInfo(q[i][1], q[i][2])] :
            q \in {r \in seqs : \A i, j \in 1..Len(r) : i # j => r[i][1] # r[j][1]}}

(***************************************************************************)
(* Calls.  A call slot holds one invocation of an exported operation: its  *)
(* position (pc), the locals of discoverInferenceServers (now, servers,    *)
(* the probes not yet settled) and what it returned.  Slots are taken in   *)
(* the order in which the calls start.                                     *)
(***************************************************************************)
MaxCalls == 2
AdminCalls == 3
MaxTicks == 2
MaxClears == 1

\* Date.now() is milliseconds since 1970: never less than the TTL.
StartTime == DISCOVERY_CACHE_TTL
TickStep == DISCOVERY_CACHE_TTL \div 2

Absent == "<undefined>"

\* What an operation handed back: nothing yet, null, a host URL, a pair of host
\* URLs, the descriptor list, or a thrown Error with its message.
Ret(tag, val) == [tag |-> tag, val |-> val]
NoRet == Ret("none", <<>>)
RetNull == Ret("null", <<>>)
Throw(message) == Ret("throw", message)

IdleCall ==
    [op |-> "none", pc |-> "idle", modelId |-> "", sourceSetName |-> "", now |-> 0,
     canAccess |-> "unasked", \* answer of userCanAccessModelAndSourceSet, once asked
     hosts |-> <<>>,         \* let hosts: the catalog's answer, once asked
     queried |-> FALSE,      \* history: the catalog was queried
     randomIndex |-> 0,      \* const randomIndex
     probes |-> <<>>,        \* ports a fetch was issued to, in order
     pending |-> {},         \* listening ports whose probe has not settled
     refused |-> FALSE,      \* probes to ports without listener not yet rejected
     reading |-> {},         \* ports whose fetch has resolved: clearTimeout was called
     servers |-> <<>>,       \* const servers: InferenceServerInfo[]
     succeeded |-> {},       \* history: ports whose probe got an ok answer with a body
     snapshot |-> <<>>,      \* what discoverInferenceServers returned
     result |-> NoRet,       \* what the operation returned
     seen |-> 0,             \* history: lastWriter when the call started
     refreshedBy |-> 0,      \* history: latest refresh completed before the start
     epoch |-> 0]            \* history: number of clears before the start

Slots == DOMAIN calls

\* the slot the next call takes
IsNextSlot(c) ==
    /\ c \in Slots
    /\ calls[c].pc = "idle"
    /\ \A d \in Slots : d < c => calls[d].pc # "idle"

MaxOf(S) == IF S = {} THEN 0 ELSE CHOOSE i \in S : \A j \in S : j <= i

DoneRefreshes == {d \in Slots : calls[d].op = "refresh" /\ calls[d].pc = "done"}

\* variant of cacheHit that ignores the age of the cache
cacheHitAnyAge(now, cachedServers, lastDiscovery) ==
    Len(cachedServers) > 0

\* variant of cacheHit that serves an empty cache too
cacheHitAnyLength(now, cachedServers, lastDiscovery) ==
    now - lastDiscovery < DISCOVERY_CACHE_TTL

\* variant of cacheHit with <= in place of <: a snapshot is served until the TTL
\* has passed, the TTL included
cacheHitUpToTTL(now, cachedServers, lastDiscovery) ==
    now - lastDiscovery <= DISCOVERY_CACHE_TTL /\ Len(cachedServers) > 0

\* if (now - _lastDiscovery < DISCOVERY_CACHE_TTL && _cachedServers.length > 0)
cacheHit(now, cachedServers, lastDiscovery) ==
    now - lastDiscovery < DISCOVERY_CACHE_TTL /\ Len(cachedServers) > 0

\* variant of modelIdOf with ?? in place of ||: a field counts as soon as it is
\* there, whatever its value
modelIdOfIfPresent(healthData) ==
    IF healthData.model_id # Absent THEN healthData.model_id
    ELSE IF healthData.model # Absent THEN healthData.model
    ELSE "unknown"

\* healthData.model_id || healthData.model || 'unknown'
modelIdOf(healthData) ==
    IF healthData.model_id \notin {Absent, ""} THEN healthData.model_id
    ELSE IF healthData.model \notin {Absent, ""} THEN healthData.model
    ELSE "unknown"

\* variant of returned in which a dual-host operation asks
\* getDynamicLocalhostInferenceHost once per element of the pair, the second
\* time being served from the cache
returnedAskingTwice(op, modelId, servers) ==
    IF op \in {"GET", "refresh"} THEN Ret("servers", servers)
    ELSE LET dynamicHost == dynamicHostOr(getInferenceServerForModel(servers, modelId))
             dynamicHost2 == dynamicHostOr(getInferenceServerForModel(_cachedServers, modelId))
         IN  IF op \in {"getTwoRandomServerHostsForModel",
                        "getTwoRandomServerHostsForSourceSet"}
             THEN Ret("pair", <<dynamicHost, dynamicHost2>>)
             ELSE Ret("url", dynamicHost)

\* What an operation hands back once discoverInferenceServers has returned
\* `servers` to it.
returned(op, modelId, servers) ==
    IF op \in {"GET", "refresh"} THEN Ret("servers", servers)
    ELSE LET dynamicHost == dynamicHostOr(getInferenceServerForModel(servers, modelId))
         IN  IF op \in {"getTwoRandomServerHostsForModel",
                        "getTwoRandomServerHostsForSourceSet"}
             THEN Ret("pair", <<dynamicHost, dynamicHost>>)
             ELSE Ret("url", dynamicHost)

\* The synchronous part of discoverInferenceServers for call rec, reading the
\* cache (cachedServers, lastDiscovery): a cache hit returns the cached array,
\* a miss issues one fetch per port of portsToCheck and awaits them all.
\* const now = Date.now() reads the clock of the step.
discoverStart(rec, cachedServers, lastDiscovery) ==
    LET now == clock'
    IN  IF cacheHit(now, cachedServers, lastDiscovery)
        THEN [rec EXCEPT !.now = now, !.pc = "done",
                         !.snapshot = cachedServers,
                         !.result = returned(rec.op, rec.modelId, cachedServers)]
        ELSE [rec EXCEPT !.now = now, !.pc = "probing",
                         !.probes = portsToCheck,
                         !.pending = {portsToCheck[i] : i \in 1..Len(portsToCheck)}
                                        \cap DOMAIN listening,
                         !.refused = TRUE,
                         !.servers = <<>>]

\* history fields of a call that enters discoverInferenceServers now, lw being
\* lastWriter and n the number of clears as the call sees them
entering(rec, lw, n) ==
    [rec EXCEPT !.seen = lw, !.refreshedBy = MaxOf(DoneRefreshes), !.epoch = n]

startRecord(op, modelId, lw, n) ==
    entering([IdleCall EXCEPT !.op = op, !.modelId = modelId], lw, n)

\* variant of settle that adds the cycle's descriptors to the cached ones
settleMerging(c, rec) ==
    IF rec.pending = {} /\ ~rec.refused
    THEN /\ _cachedServers' = _cachedServers \o rec.servers
         /\ _lastDiscovery' = rec.now
         /\ lastWriter' = c
         /\ calls' = [calls EXCEPT ![c] =
                [rec EXCEPT !.pc = "done", !.snapshot = rec.servers,
                            !.result = returned(rec.op, rec.modelId, rec.servers)]]
    ELSE /\ calls' = [calls EXCEPT ![c] = rec]
         /\ UNCHANGED <<_cachedServers, _lastDiscovery, lastWriter>>

\* After the last probe has settled (Promise.allSettled resolves):
\*   _cachedServers = servers; _lastDiscovery = now; return servers
\* rec is the call's record with the settled probe already accounted for.
settle(c, rec) ==
    IF rec.pending = {} /\ ~rec.refused
    THEN /\ _cachedServers' = rec.servers
         /\ _lastDiscovery' = rec.now
         /\ lastWriter' = c
         /\ calls' = [calls EXCEPT ![c] =
                [rec EXCEPT !.pc = "done", !.snapshot = rec.servers,
                            !.result = returned(rec.op, rec.modelId, rec.servers)]]
    ELSE /\ calls' = [calls EXCEPT ![c] = rec]
         /\ UNCHANGED <<_cachedServers, _lastDiscovery, lastWriter>>

(***************************************************************************)
(* Actions of the discovery cache                                          *)
(***************************************************************************)
\* Date.now() is read only when a call starts: the time that has passed since
\* the previous start, in steps of TickStep.
Elapse ==
    \E n \in 0..MaxTicks :
        /\ clock + n * TickStep <= StartTime + MaxTicks * TickStep
        /\ clock' = clock + n * TickStep

\* Date.now() is read by this step only if it enters discoverInferenceServers.
ElapseIf(readsClock) == IF readsClock THEN Elapse ELSE UNCHANGED clock

\* route.ts GET: getAllDiscoveredInferenceServers() -> discoverInferenceServers()
GET(c) ==
    /\ IsNextSlot(c)
    /\ Elapse
    /\ calls' = [calls EXCEPT ![c] =
            discoverStart(startRecord("GET", "", lastWriter, clears),
                          _cachedServers, _lastDiscovery)]
    /\ UNCHANGED <<USE_LOCALHOST_INFERENCE, IS_DOCKER_COMPOSE, _cachedServers,
                   _lastDiscovery, listening, lastWriter, clears, catalog,
                   pureVars>>

\* route.ts POST {action: "refresh"}: clearInferenceServerCache() and the start of
\* getAllDiscoveredInferenceServers() run in one turn, the cache being [] and 0.
POSTRefresh(c) ==
    /\ IsNextSlot(c)
    /\ Elapse
    /\ clears < MaxClears
    /\ clears' = clears + 1
    /\ _cachedServers' = <<>>
    /\ _lastDiscovery' = 0
    /\ lastWriter' = 0
    /\ calls' = [calls EXCEPT ![c] =
            discoverStart(startRecord("refresh", "", 0, clears + 1), <<>>, 0)]
    /\ UNCHANGED <<USE_LOCALHOST_INFERENCE, IS_DOCKER_COMPOSE, listening,
                   catalog, pureVars>>

\* export function clearInferenceServerCache(), called on its own
clearInferenceServerCache ==
    /\ clears < MaxClears
    /\ clears' = clears + 1
    /\ _cachedServers' = <<>>
    /\ _lastDiscovery' = 0
    /\ lastWriter' = 0
    /\ UNCHANGED <<USE_LOCALHOST_INFERENCE, IS_DOCKER_COMPOSE, clock, listening,
                   calls, catalog, pureVars>>

\* The probe of a listening port settles with healthResponse.ok and a JSON body:
\* servers.push({port, modelId, url, health: true}).
ProbeOk(c, p) ==
    /\ c \in Slots
    /\ calls[c].pc = "probing"
    /\ ~calls[c].refused
    /\ p \in calls[c].pending
    /\ settle(c, [calls[c] EXCEPT
            !.pending = @ \ {p},
            !.succeeded = @ \cup {p},
            !.servers = Append(@, InferenceServerInfo(p, modelIdOf(listening[p])))])
    /\ UNCHANGED <<USE_LOCALHOST_INFERENCE, IS_DOCKER_COMPOSE, clock, listening,
                   clears, catalog, pureVars>>

\* variant of ProbeFail without the test of healthResponse.ok: a descriptor is
\* pushed for an answer that is not ok
ProbeFailPushes(c, p) ==
    /\ c \in Slots
    /\ calls[c].pc = "probing"
    /\ ~calls[c].refused
    /\ p \in calls[c].pending
    /\ settle(c, [calls[c] EXCEPT
            !.pending = @ \ {p},
            !.servers = Append(@, InferenceServerInfo(p, "unknown"))])
    /\ UNCHANGED <<USE_LOCALHOST_INFERENCE, IS_DOCKER_COMPOSE, clock, listening,
                   clears, catalog, pureVars>>

\* The probe of a listening port settles without a descriptor: fetch rejects
\* (abort after 2 s, network error), the status is not ok, json() throws, or the
\* body is the JSON value null (reading healthData.model_id throws).
ProbeFail(c, p) ==
    /\ c \in Slots
    /\ calls[c].pc = "probing"
    /\ ~calls[c].refused
    /\ p \in calls[c].pending
    /\ settle(c, [calls[c] EXCEPT !.pending = @ \ {p}])
    /\ UNCHANGED <<USE_LOCALHOST_INFERENCE, IS_DOCKER_COMPOSE, clock, listening,
                   clears, catalog, pureVars>>

\* The probes of the ports nobody listens on reject (connection refused); the
\* catch block ignores each.  They change nothing but what the cycle still
\* awaits, so they are taken together, and before the answers of the listening
\* ports (all probes go to one host at once, and a refusal needs no HTTP
\* exchange): a later refusal would only delay the end of the cycle, which the
\* last answer can as well.
ProbesRefused(c) ==
    /\ c \in Slots
    /\ calls[c].pc = "probing"
    /\ calls[c].refused
    /\ settle(c, [calls[c] EXCEPT !.refused = FALSE])
    /\ UNCHANGED <<USE_LOCALHOST_INFERENCE, IS_DOCKER_COMPOSE, clock, listening,
                   clears, catalog, pureVars>>

(***************************************************************************)
(* One probe in two steps: await fetch(...), bounded by the abort timer,   *)
(* then clearTimeout(timeoutId) and await healthResponse.json().           *)
(***************************************************************************)
\* fetch resolves for port p (the response headers are there):
\* clearTimeout(timeoutId) runs, the body is still to be read
FetchResolves(c, p) ==
    /\ c \in Slots
    /\ calls[c].pc = "probing"
    /\ ~calls[c].refused
    /\ p \in calls[c].pending \ calls[c].reading
    /\ calls' = [calls EXCEPT ![c].reading = @ \cup {p}]
    /\ UNCHANGED <<USE_LOCALHOST_INFERENCE, IS_DOCKER_COMPOSE, _cachedServers,
                   _lastDiscovery, clock, listening, lastWriter, clears, catalog,
                   pureVars>>

\* setTimeout(() => controller.abort(), 2000) fires while fetch is pending: fetch
\* rejects and the catch block ends the probe
AbortFires(c, p) ==
    /\ p \notin calls[c].reading
    /\ ProbeFail(c, p)

\* healthResponse.json() resolves: the descriptor is pushed
BodyRead(c, p) ==
    /\ p \in calls[c].reading
    /\ ProbeOk(c, p)

\* the answer is not ok, or the connection breaks, or json() throws
AnswerFails(c, p) ==
    /\ p \in calls[c].reading
    /\ ProbeFail(c, p)

(***************************************************************************)
(* route.ts POST with a body that does not ask for a refresh               *)
(***************************************************************************)
PostCalls == 1
MaxPosts == 2

\* What await request.json() can give: an object with or without an action, the
\* value null, or a rejection (the body is not JSON).
JsonObject(action) == [kind |-> "object", action |-> action]
JsonNull == [kind |-> "null", action |-> Absent]
NotJson == [kind |-> "invalid", action |-> Absent]

PostBodies ==
    {JsonObject(a) : a \in {"refresh", "Refresh", "clear", "", Absent}}
        \cup {JsonNull, NotJson}

NoResponse == [count |-> 0, body |-> NotJson, status |-> 0]

\* the status of the response to a body that does not ask for a refresh:
\* request.json() rejecting, or destructuring null, ends in the catch block
POSTStatus(body) == IF body.kind = "object" THEN 400 ELSE 500

\* variant of POSTOther that invalidates the cache before it refuses the action
POSTOtherClears(body) ==
    /\ ~(body.kind = "object" /\ body.action = "refresh")
    /\ response.count < MaxPosts
    /\ response' = [count |-> response.count + 1, body |-> body,
                    status |-> POSTStatus(body)]
    /\ _cachedServers' = <<>>
    /\ _lastDiscovery' = 0
    /\ UNCHANGED <<USE_LOCALHOST_INFERENCE, IS_DOCKER_COMPOSE, clock, listening, calls,
                   lastWriter, clears, catalog, name, norm1, norm2, req, snap, out,
                   phase>>

\* route.ts POST, action !== 'refresh': the response is all it does
POSTOther(body) ==
    /\ ~(body.kind = "object" /\ body.action = "refresh")
    /\ response.count < MaxPosts
    /\ response' = [count |-> response.count + 1, body |-> body,
                    status |-> POSTStatus(body)]
    /\ UNCHANGED <<progVars, name, norm1, norm2, req, snap, out, phase>>

(***************************************************************************)
(* Host Selector                                                           *)
(***************************************************************************)
\* A catalog row: one inferenceHost of one source (of a model, in a source set).
SourceHost(modelId, setName, hostUrl) ==
    [modelId |-> modelId, setName |-> setName, hostUrl |-> hostUrl]

\* Array.prototype.map(host => host.inferenceHost.hostUrl)
hostUrls(rows) == [i \in 1..Len(rows) |-> rows[i].hostUrl]

\* prisma.source.findMany({where: {modelId}}) flattened to host URLs
getAllServerHostsForModel(modelId) ==
    hostUrls(SelectSeq(catalog, LAMBDA r : r.modelId = modelId))

\* prisma.source.findMany({where: {modelId, setName: sourceSetName}}) flattened
getAllServerHostsForSourceSet(modelId, sourceSetName) ==
    hostUrls(SelectSeq(catalog,
                LAMBDA r : r.modelId = modelId /\ r.setName = sourceSetName))

\* source sets the acting user may read; every other one is denied
ReadableSets == {"res-jb"}

\* userCanAccessModelAndSourceSet(modelId, sourceSetName, user, true)
userCanAccessModelAndSourceSet(modelId, sourceSetName) ==
    sourceSetName \in ReadableSets

\* [...new Set(hosts)]: first occurrences, in order
RECURSIVE unique(_)
unique(hosts) ==
    IF Len(hosts) = 0 THEN <<>>
    ELSE LET front == unique(SubSeq(hosts, 1, Len(hosts) - 1))
             last == hosts[Len(hosts)]
         IN  IF includes(front, last) THEN front ELSE Append(front, last)

\* Math.floor(Math.random() * length): the indexes it can yield
randomIndexes(length) == 0..(length - 1)

\* getDynamicLocalhostInferenceHost(modelId) up to its first await: without a
\* modelId the default host, else getInferenceServerForModel enters
\* discoverInferenceServers.
enterDynamic(rec) ==
    IF rec.modelId = ""
    THEN [rec EXCEPT !.pc = "done",
            !.result = IF rec.op \in {"getTwoRandomServerHostsForModel",
                                      "getTwoRandomServerHostsForSourceSet"}
                       THEN Ret("pair", <<LOCALHOST_INFERENCE_HOST, LOCALHOST_INFERENCE_HOST>>)
                       ELSE Ret("url", LOCALHOST_INFERENCE_HOST)]
    ELSE discoverStart(entering(rec, lastWriter, clears), _cachedServers, _lastDiscovery)

\* the call awaits a catalog query
askCatalog(rec) == [rec EXCEPT !.pc = "catalog", !.queried = TRUE]

\* variant of afterAccessOne with the dynamic branch ahead of the denial, the
\* order getTwoRandomServerHostsForSourceSet has
afterAccessOneDynamicFirst(rec, canAccess) ==
    IF USE_LOCALHOST_INFERENCE THEN enterDynamic([rec EXCEPT !.canAccess = canAccess])
    ELSE IF ~canAccess THEN [rec EXCEPT !.canAccess = FALSE, !.pc = "done", !.result = RetNull]
    ELSE askCatalog([rec EXCEPT !.canAccess = TRUE])

\* getOneRandomServerHostForSourceSet once the access check has answered
afterAccessOne(rec, canAccess) ==
    IF ~canAccess THEN [rec EXCEPT !.canAccess = FALSE, !.pc = "done", !.result = RetNull]
    ELSE IF USE_LOCALHOST_INFERENCE THEN enterDynamic([rec EXCEPT !.canAccess = TRUE])
    ELSE askCatalog([rec EXCEPT !.canAccess = TRUE])

\* getTwoRandomServerHostsForSourceSet from its first line
startTwoForSourceSet(rec) ==
    IF USE_LOCALHOST_INFERENCE THEN enterDynamic(rec)
    ELSE [rec EXCEPT !.pc = "access"]

\* getTwoRandomServerHostsForSourceSet once the access check has answered
afterAccessTwo(rec, canAccess) ==
    IF ~canAccess
    THEN [rec EXCEPT !.canAccess = FALSE, !.pc = "done",
                     !.result = Throw("Source set not found.")]
    ELSE askCatalog([rec EXCEPT !.canAccess = TRUE])

\* getOneRandomServerHostForSourceSet once the catalog has answered hosts
pickOne(rec, hosts, randomIndex) ==
    IF Len(hosts) = 0
    THEN [rec EXCEPT !.hosts = hosts, !.pc = "done", !.result = RetNull]
    ELSE [rec EXCEPT !.hosts = hosts, !.pc = "done", !.randomIndex = randomIndex,
                     !.result = Ret("url", hosts[randomIndex + 1])]

\* variant of pickTwo without the while loop
pickTwoNoLoop(rec, answer, randomIndex, randomIndex2) ==
    IF Len(answer) = 0
    THEN [rec EXCEPT !.hosts = answer, !.pc = "done", !.result = Throw("No hosts found.")]
    ELSE LET hosts == unique(answer)
         IN  IF Len(hosts) < 2
             THEN [rec EXCEPT !.hosts = hosts, !.pc = "done",
                              !.result = Ret("pair", <<hosts[1], hosts[1]>>)]
             ELSE [rec EXCEPT !.hosts = hosts, !.pc = "done",
                              !.randomIndex = randomIndex,
                              !.result = Ret("pair", <<hosts[randomIndex + 1],
                                                       hosts[randomIndex2 + 1]>>)]

\* variant of pickTwo without the test hosts.length < 2
pickTwoNoGuard(rec, answer, randomIndex, randomIndex2) ==
    IF Len(answer) = 0
    THEN [rec EXCEPT !.hosts = answer, !.pc = "done", !.result = Throw("No hosts found.")]
    ELSE LET hosts == unique(answer)
         IN  IF randomIndex2 = randomIndex
             THEN [rec EXCEPT !.hosts = hosts, !.pc = "resample",
                              !.randomIndex = randomIndex]
             ELSE [rec EXCEPT !.hosts = hosts, !.pc = "done",
                              !.randomIndex = randomIndex,
                              !.result = Ret("pair", <<hosts[randomIndex + 1],
                                                       hosts[randomIndex2 + 1]>>)]

\* getTwoRandomServerHosts*: from the catalog's answer to the while loop
pickTwo(rec, answer, randomIndex, randomIndex2) ==
    IF Len(answer) = 0
    THEN [rec EXCEPT !.hosts = answer, !.pc = "done", !.result = Throw("No hosts found.")]
    ELSE LET hosts == unique(answer)
         IN  IF Len(hosts) < 2
             THEN [rec EXCEPT !.hosts = hosts, !.pc = "done",
                              !.result = Ret("pair", <<hosts[1], hosts[1]>>)]
             ELSE IF randomIndex2 = randomIndex
             THEN [rec EXCEPT !.hosts = hosts, !.pc = "resample",
                              !.randomIndex = randomIndex]
             ELSE [rec EXCEPT !.hosts = hosts, !.pc = "done",
                              !.randomIndex = randomIndex,
                              !.result = Ret("pair", <<hosts[randomIndex + 1],
                                                       hosts[randomIndex2 + 1]>>)]

\* variant of pickFirst that returns the last of the unique hosts
pickLast(rec, answer) ==
    IF Len(answer) = 0
    THEN [rec EXCEPT !.hosts = answer, !.pc = "done", !.result = Throw("No hosts found.")]
    ELSE [rec EXCEPT !.hosts = unique(answer), !.pc = "done",
                     !.result = Ret("url", unique(answer)[Len(unique(answer))])]

\* getOneRandomServerHostForModel once the catalog has answered: the first of
\* the unique hosts
pickFirst(rec, answer) ==
    IF Len(answer) = 0
    THEN [rec EXCEPT !.hosts = answer, !.pc = "done", !.result = Throw("No hosts found.")]
    ELSE [rec EXCEPT !.hosts = unique(answer), !.pc = "done",
                     !.result = Ret("url", unique(answer)[1])]

\* What getSourceInferenceHosts(modelId, sourceId, user) resolves to: nothing
\* (no such source), or the source's hosts, given here by their hostUrl.
NoSource == [found |-> FALSE, hosts |-> <<>>]
SourceHosts(hosts) == [found |-> TRUE, hosts |-> hosts]

\* answers of getSourceInferenceHosts: no such source, or up to MaxSourceHosts hosts
MaxSourceHosts == 1
SourceAnswers ==
    {NoSource} \cup
    {SourceHosts(h) : h \in UNION {[1..n -> {"http://10.0.0.1:5002", "http://10.0.0.2:5002"}] :
                                      n \in 0..MaxSourceHosts}}

\* Math.floor(Math.random() * length): 0 for length 0
randomIndexOf(length) == IF length = 0 THEN {0} ELSE randomIndexes(length)

\* getOneRandomServerHostForSource once getSourceInferenceHosts has answered:
\*   if (!hosts) throw new Error('Source not found.')   ([] is not falsy)
\*   return hosts[randomIndex].inferenceHost.hostUrl
\* hosts[randomIndex] is undefined for an empty array, and reading a property of
\* undefined throws a TypeError.
pickForSource(rec, answer, randomIndex) ==
    IF ~answer.found
    THEN [rec EXCEPT !.pc = "done", !.result = Throw("Source not found.")]
    ELSE IF randomIndex >= Len(answer.hosts)
    THEN [rec EXCEPT !.hosts = answer.hosts, !.pc = "done", !.queried = TRUE,
                     !.randomIndex = randomIndex,
                     !.result = Throw("TypeError: Cannot read properties of undefined")]
    ELSE [rec EXCEPT !.hosts = answer.hosts, !.pc = "done", !.queried = TRUE,
                     !.randomIndex = randomIndex,
                     !.result = Ret("url", answer.hosts[randomIndex + 1])]

\* one pass of: while (randomIndex2 === randomIndex) randomIndex2 = Math.floor(...)
resample(rec, randomIndex2) ==
    IF randomIndex2 = rec.randomIndex THEN rec
    ELSE [rec EXCEPT !.pc = "done",
                     !.result = Ret("pair", <<rec.hosts[rec.randomIndex + 1],
                                              rec.hosts[randomIndex2 + 1]>>)]

\* The frame of a step of one call that leaves the cache alone.
callFrame ==
    UNCHANGED <<USE_LOCALHOST_INFERENCE, IS_DOCKER_COMPOSE, _cachedServers,
                _lastDiscovery, listening, lastWriter, clears, catalog, pureVars>>

newCall(op, modelId, sourceSetName) ==
    [IdleCall EXCEPT !.op = op, !.modelId = modelId, !.sourceSetName = sourceSetName]

\* export const getOneRandomServerHostForSourceSet: up to
\*   await userCanAccessModelAndSourceSet(...)
getOneRandomServerHostForSourceSet(c, modelId, sourceSetName) ==
    /\ IsNextSlot(c)
    /\ UNCHANGED clock
    /\ calls' = [calls EXCEPT ![c] =
            [newCall("getOneRandomServerHostForSourceSet", modelId, sourceSetName)
                EXCEPT !.pc = "access"]]
    /\ callFrame

\* export const getOneRandomServerHostForSource: up to its first await
getOneRandomServerHostForSource(c, modelId) ==
    /\ IsNextSlot(c)
    /\ ElapseIf(USE_LOCALHOST_INFERENCE)
    /\ calls' = [calls EXCEPT ![c] =
            LET rec == newCall("getOneRandomServerHostForSource", modelId, "")
            IN  IF USE_LOCALHOST_INFERENCE THEN enterDynamic(rec)
                ELSE [rec EXCEPT !.pc = "source"]]
    /\ callFrame

\* export const getOneRandomServerHostForModel: up to its first await
getOneRandomServerHostForModel(c, modelId) ==
    /\ IsNextSlot(c)
    /\ ElapseIf(USE_LOCALHOST_INFERENCE)
    /\ calls' = [calls EXCEPT ![c] =
            LET rec == newCall("getOneRandomServerHostForModel", modelId, "")
            IN  IF USE_LOCALHOST_INFERENCE THEN enterDynamic(rec) ELSE askCatalog(rec)]
    /\ callFrame

\* variant of getTwoRandomServerHostsForModel with the test of the mode inverted
getTwoRandomServerHostsForModelInverted(c, modelId) ==
    /\ IsNextSlot(c)
    /\ ElapseIf(~USE_LOCALHOST_INFERENCE)
    /\ calls' = [calls EXCEPT ![c] =
            LET rec == newCall("getTwoRandomServerHostsForModel", modelId, "")
            IN  IF ~USE_LOCALHOST_INFERENCE THEN enterDynamic(rec) ELSE askCatalog(rec)]
    /\ callFrame

\* export const getTwoRandomServerHostsForModel: up to its first await
getTwoRandomServerHostsForModel(c, modelId) ==
    /\ IsNextSlot(c)
    /\ ElapseIf(USE_LOCALHOST_INFERENCE)
    /\ calls' = [calls EXCEPT ![c] =
            LET rec == newCall("getTwoRandomServerHostsForModel", modelId, "")
            IN  IF USE_LOCALHOST_INFERENCE THEN enterDynamic(rec) ELSE askCatalog(rec)]
    /\ callFrame

\* export const getTwoRandomServerHostsForSourceSet: up to its first await
getTwoRandomServerHostsForSourceSet(c, modelId, sourceSetName) ==
    /\ IsNextSlot(c)
    /\ ElapseIf(USE_LOCALHOST_INFERENCE)
    /\ calls' = [calls EXCEPT ![c] =
            startTwoForSourceSet(
                newCall("getTwoRandomServerHostsForSourceSet", modelId, sourceSetName))]
    /\ callFrame

\* await userCanAccessModelAndSourceSet(...) resumes
AccessReturns(c) ==
    /\ c \in Slots
    /\ calls[c].pc = "access"
    /\ ElapseIf(USE_LOCALHOST_INFERENCE)
    /\ LET rec == calls[c]
           canAccess == userCanAccessModelAndSourceSet(rec.modelId, rec.sourceSetName)
       IN  calls' = [calls EXCEPT ![c] =
                IF rec.op = "getOneRandomServerHostForSourceSet"
                THEN afterAccessOne(rec, canAccess)
                ELSE afterAccessTwo(rec, canAccess)]
    /\ callFrame

\* await getAllServerHostsForSourceSet(...) / getAllServerHostsForModel(...) resumes
CatalogReturns(c) ==
    /\ c \in Slots
    /\ calls[c].pc = "catalog"
    /\ LET rec == calls[c]
           answer == IF rec.op \in {"getTwoRandomServerHostsForModel",
                                     "getOneRandomServerHostForModel"}
                     THEN getAllServerHostsForModel(rec.modelId)
                     ELSE getAllServerHostsForSourceSet(rec.modelId, rec.sourceSetName)
       IN  IF rec.op = "getOneRandomServerHostForModel"
           THEN calls' = [calls EXCEPT ![c] = pickFirst(rec, answer)]
           ELSE IF rec.op = "getOneRandomServerHostForSourceSet"
           THEN IF Len(answer) = 0
                THEN calls' = [calls EXCEPT ![c] = pickOne(rec, answer, 0)]
                ELSE \E randomIndex \in randomIndexes(Len(answer)) :
                        calls' = [calls EXCEPT ![c] = pickOne(rec, answer, randomIndex)]
           ELSE IF Len(unique(answer)) < 2
                THEN calls' = [calls EXCEPT ![c] = pickTwo(rec, answer, 0, 0)]
                ELSE \E randomIndex, randomIndex2 \in randomIndexes(Len(unique(answer))) :
                        calls' = [calls EXCEPT ![c] =
                                    pickTwo(rec, answer, randomIndex, randomIndex2)]
    /\ UNCHANGED clock
    /\ callFrame

\* await getSourceInferenceHosts(...) resumes with the adapter's answer
SourceReturns(c) ==
    /\ c \in Slots
    /\ calls[c].pc = "source"
    /\ \E answer \in SourceAnswers :
        \E randomIndex \in randomIndexOf(Len(answer.hosts)) :
            calls' = [calls EXCEPT ![c] = pickForSource(calls[c], answer, randomIndex)]
    /\ UNCHANGED clock
    /\ callFrame

\* the while loop draws again
Resample(c) ==
    /\ c \in Slots
    /\ calls[c].pc = "resample"
    /\ \E randomIndex2 \in randomIndexes(Len(calls[c].hosts)) :
            calls' = [calls EXCEPT ![c] = resample(calls[c], randomIndex2)]
    /\ UNCHANGED clock
    /\ callFrame

(***************************************************************************)
(* Pure-function harness: apply normalizeModelName and the matcher to      *)
(* inputs drawn in Init.                                                   *)
(***************************************************************************)
Normalize ==
    /\ phase = "name"
    /\ norm1' = normalizeModelName(name)
    /\ phase' = "normalized"
    /\ UNCHANGED <<progVars, name, norm2, req, snap, out, response>>

Renormalize ==
    /\ phase = "normalized"
    /\ norm2' = normalizeModelName(norm1)
    /\ phase' = "renormalized"
    /\ UNCHANGED <<progVars, name, norm1, req, snap, out, response>>

\* normalizeModelName on the base name with each of the three suffixes
Suffixed ==
    /\ phase = "base"
    /\ norm1' = normalizeModelName(name \o "-instruct")
    /\ norm2' = normalizeModelName(name \o "-instruction")
    /\ out' = normalizeModelName(name \o "-it")
    /\ phase' = "suffixed"
    /\ UNCHANGED <<progVars, name, req, snap, response>>

Match ==
    /\ phase = "request"
    /\ out' = getInferenceServerForModel(snap, req)
    /\ phase' = "matched"
    /\ UNCHANGED <<progVars, name, norm1, norm2, req, snap, response>>

(***************************************************************************)
(* Initial states and specifications                                       *)
(***************************************************************************)
CacheServers == 1

\* What the server on the i-th scanned port answers on /health (the
\* documentation's example: gpt2-small on 5002, gemma-2-2b-it on 5005).
healthBody(i) ==
    CASE i = 1 -> [model_id |-> "gpt2-small", model |-> Absent]
      [] i = 2 -> [model_id |-> "gemma-2-2b-it", model |-> Absent]
      [] i = 3 -> [model_id |-> Absent, model |-> "gpt2"]
      [] OTHER -> [model_id |-> Absent, model |-> Absent]

Listeners(n) ==
    [p \in {portsToCheck[i] : i \in 1..n} |->
        healthBody(CHOOSE i \in 1..n : portsToCheck[i] = p)]

PureOff ==
    /\ name = "" /\ norm1 = "" /\ norm2 = ""
    /\ req = "" /\ snap = <<>> /\ out = Null
    /\ phase = "off"
    /\ response = NoResponse

CacheEmpty ==
    /\ _cachedServers = <<>>
    /\ _lastDiscovery = 0
    /\ lastWriter = 0
    /\ clears = 0

\* The admin endpoint and the discovery cache, n calls running concurrently.
InitDiscovery(n) ==
    /\ USE_LOCALHOST_INFERENCE = TRUE
    /\ IS_DOCKER_COMPOSE = FALSE
    /\ CacheEmpty
    /\ clock = StartTime
    /\ listening = Listeners(CacheServers)
    /\ calls = [c \in 1..n |-> IdleCall]
    /\ catalog = <<>>
    /\ PureOff

InitCache == InitDiscovery(MaxCalls)

InitAdmin == InitDiscovery(AdminCalls)

NextCache ==
    \/ \E c \in Slots : GET(c)
    \/ \E c \in Slots : POSTRefresh(c)
    \/ clearInferenceServerCache
    \/ \E c \in Slots : \E p \in calls[c].pending : ProbeOk(c, p)
    \/ \E c \in Slots : \E p \in calls[c].pending : ProbeFail(c, p)
    \/ \E c \in Slots : ProbesRefused(c)

SpecCache == InitCache /\ [][NextCache]_vars

SpecAdmin == InitAdmin /\ [][NextCache]_vars

\* The admin endpoint with every kind of POST.
InitPost == InitDiscovery(PostCalls)

NextPost ==
    \/ NextCache
    \/ \E body \in PostBodies : POSTOther(body)

SpecPost == InitPost /\ [][NextPost]_vars

\* Discovery cycles with each probe in two steps.  The timer of a pending fetch
\* fires and a refused connection is reported; what a server that has accepted
\* the connection sends, and when, is up to the server.
LiveCalls == 2
LiveServers == 2

InitLive ==
    /\ USE_LOCALHOST_INFERENCE = TRUE
    /\ IS_DOCKER_COMPOSE = FALSE
    /\ CacheEmpty
    /\ clock = StartTime
    /\ listening = Listeners(LiveServers)
    /\ calls = [c \in 1..LiveCalls |-> IdleCall]
    /\ catalog = <<>>
    /\ PureOff

NextLive ==
    \/ \E c \in Slots : GET(c)
    \/ \E c \in Slots : ProbesRefused(c)
    \/ \E c \in Slots : \E p \in calls[c].pending : FetchResolves(c, p)
    \/ \E c \in Slots : \E p \in calls[c].pending : AbortFires(c, p)
    \/ \E c \in Slots : \E p \in calls[c].pending : BodyRead(c, p)
    \/ \E c \in Slots : \E p \in calls[c].pending : AnswerFails(c, p)

FairLive ==
    /\ \A c \in 1..LiveCalls : WF_vars(ProbesRefused(c))
    /\ \A c \in 1..LiveCalls : \A p \in DOMAIN Listeners(LiveServers) :
            WF_vars(AbortFires(c, p))

SpecLive == InitLive /\ [][NextLive]_vars /\ FairLive

\* Discovery cycles over servers whose /health body is any JSON object: each of
\* the fields model_id and model is missing, the empty string, or an identifier.
HealthCalls == 1
HealthServers == 1

HealthBodies ==
    [model_id : {Absent, "", "gpt2-small"}, model : {Absent, "", "gpt2"}]

InitHealth ==
    /\ USE_LOCALHOST_INFERENCE = TRUE
    /\ IS_DOCKER_COMPOSE = FALSE
    /\ CacheEmpty
    /\ clock = StartTime
    /\ listening \in [{portsToCheck[i] : i \in 1..HealthServers} -> HealthBodies]
    /\ calls = [c \in 1..HealthCalls |-> IdleCall]
    /\ catalog = <<>>
    /\ PureOff

NextHealth ==
    \/ \E c \in Slots : GET(c)
    \/ \E c \in Slots : \E p \in calls[c].pending : ProbeOk(c, p)
    \/ \E c \in Slots : \E p \in calls[c].pending : ProbeFail(c, p)
    \/ \E c \in Slots : ProbesRefused(c)

SpecHealth == InitHealth /\ [][NextHealth]_vars

\* The pure functions on bounded inputs.
InitPure ==
    /\ USE_LOCALHOST_INFERENCE = TRUE
    /\ IS_DOCKER_COMPOSE = FALSE
    /\ CacheEmpty
    /\ clock = StartTime
    /\ listening = <<>>
    /\ calls = <<>>
    /\ catalog = <<>>
    /\ \/ /\ phase = "name"
          /\ name \in Concats(MaxFrags)
          /\ req = "" /\ snap = <<>>
       \/ /\ phase = "base"
          /\ name \in Concats(MaxFrags)
          /\ req = "" /\ snap = <<>>
       \/ /\ phase = "request"
          /\ name = ""
          /\ req \in MatchNames
          /\ snap \in Snapshots
    /\ norm1 = "" /\ norm2 = "" /\ out = Null
    /\ response = NoResponse

NextPure ==
    \/ Normalize
    \/ Renormalize
    \/ Suffixed
    \/ Match

SpecPure == InitPure /\ [][NextPure]_vars

\* The Host Selector in both routing modes.
SelCalls == 1
SelServers == 2
MaxRows == 3

\* "" is a modelId for which getDynamicLocalhostInferenceHost skips discovery
SelModels == {"gpt2-small", "gemma-2-2b", ""}
CatalogModels == {"gpt2-small"}
SetNames == {"res-jb", "att-kk"}
\* hostUrl is free text in the catalog (createInferenceHostSource stores its
\* input as it is): one URL of the form scheme://host:port, one with a path
HostNames == {"http://10.0.0.1:5002", "http://10.0.0.2:5002/"}

Catalogs(n) ==
    UNION {[1..k -> {SourceHost(m, st, h) :
                        m \in CatalogModels, st \in SetNames, h \in HostNames}] :
            k \in 0..n}

InitSelect ==
    /\ IS_DOCKER_COMPOSE = FALSE
    /\ CacheEmpty
    /\ clock = StartTime
    /\ calls = [c \in 1..SelCalls |-> IdleCall]
    /\ \/ /\ USE_LOCALHOST_INFERENCE = FALSE
          /\ listening = <<>>
          /\ catalog \in Catalogs(MaxRows)
       \/ /\ USE_LOCALHOST_INFERENCE = TRUE
          /\ listening = Listeners(SelServers)
          /\ catalog = <<>>
    /\ PureOff

\* no call is under way
Quiet == \A c \in Slots : calls[c].pc \in {"idle", "done"}

\* The selector's calls are taken one after the other here; cycles that run
\* concurrently are the subject of SpecCache.
NextSelect ==
    \/ \E c \in Slots : \E m \in SelModels : \E st \in SetNames :
            Quiet /\ getOneRandomServerHostForSourceSet(c, m, st)
    \/ \E c \in Slots : \E m \in SelModels :
            Quiet /\ getOneRandomServerHostForSource(c, m)
    \/ \E c \in Slots : \E m \in SelModels :
            Quiet /\ getOneRandomServerHostForModel(c, m)
    \/ \E c \in Slots : \E m \in SelModels :
            Quiet /\ getTwoRandomServerHostsForModel(c, m)
    \/ \E c \in Slots : \E m \in SelModels : \E st \in SetNames :
            Quiet /\ getTwoRandomServerHostsForSourceSet(c, m, st)
    \/ \E c \in Slots : AccessReturns(c)
    \/ \E c \in Slots : CatalogReturns(c)
    \/ \E c \in Slots : SourceReturns(c)
    \/ \E c \in Slots : Resample(c)
    \/ \E c \in Slots : \E p \in calls[c].pending : ProbeOk(c, p)
    \/ \E c \in Slots : \E p \in calls[c].pending : ProbeFail(c, p)
    \/ \E c \in Slots : ProbesRefused(c)

SpecSelect == InitSelect /\ [][NextSelect]_vars

\* The dual-host operations in dynamic mode, next to the admin endpoint's GET
\* and to clearInferenceServerCache; the servers report identifiers that match
\* the same request (gpt2-small and gpt2 both normalize to gpt2).
PairCalls == 1

PairModels == {"gpt2", ""}

PairListening ==
    (FirstPort :> [model_id |-> "gpt2-small", model |-> Absent])
        @@ (ScanFrom :> [model_id |-> Absent, model |-> "gpt2"])

InitPair ==
    /\ USE_LOCALHOST_INFERENCE = TRUE
    /\ IS_DOCKER_COMPOSE = FALSE
    /\ CacheEmpty
    /\ clock = StartTime
    /\ listening = PairListening
    /\ calls = [c \in 1..PairCalls |-> IdleCall]
    /\ catalog = <<>>
    /\ PureOff

NextPair ==
    \/ \E c \in Slots : GET(c)
    \/ \E c \in Slots : \E m \in PairModels : getTwoRandomServerHostsForModel(c, m)
    \/ \E c \in Slots : \E m \in PairModels : \E st \in SetNames :
            getTwoRandomServerHostsForSourceSet(c, m, st)
    \/ clearInferenceServerCache
    \/ \E c \in Slots : \E p \in calls[c].pending : ProbeOk(c, p)
    \/ \E c \in Slots : \E p \in calls[c].pending : ProbeFail(c, p)
    \/ \E c \in Slots : ProbesRefused(c)

SpecPair == InitPair /\ [][NextPair]_vars

\* Routing in dynamic mode: calls of getOneRandomServerHostForModel over the
\* same two servers, each call with its own discovery cycle or served from the
\* cache.  "llama" is an identifier that no server reports.
OrderCalls == 2

OrderModels == {"gpt2", "llama"}

InitOrder ==
    /\ USE_LOCALHOST_INFERENCE = TRUE
    /\ IS_DOCKER_COMPOSE = FALSE
    /\ CacheEmpty
    /\ clock = StartTime
    /\ listening = PairListening
    /\ calls = [c \in 1..OrderCalls |-> IdleCall]
    /\ catalog = <<>>
    /\ PureOff

NextOrder ==
    \/ \E c \in Slots : \E m \in OrderModels : getOneRandomServerHostForModel(c, m)
    \/ \E c \in Slots : \E p \in calls[c].pending : ProbeOk(c, p)
    \/ \E c \in Slots : \E p \in calls[c].pending : ProbeFail(c, p)
    \/ \E c \in Slots : ProbesRefused(c)

SpecOrder == InitOrder /\ [][NextOrder]_vars

\* The dual-host operations in static mode.  Math.random() is fair: while the
\* loop runs, a draw that differs from randomIndex comes up eventually (a draw
\* of the same index leaves the call where it is).
ResampleCalls == 1
ResampleRows == 2

InitResample ==
    /\ USE_LOCALHOST_INFERENCE = FALSE
    /\ IS_DOCKER_COMPOSE = FALSE
    /\ CacheEmpty
    /\ clock = StartTime
    /\ listening = <<>>
    /\ calls = [c \in 1..ResampleCalls |-> IdleCall]
    /\ catalog \in Catalogs(ResampleRows)
    /\ PureOff

NextResample ==
    \/ \E c \in Slots : \E m \in SelModels :
            Quiet /\ getTwoRandomServerHostsForModel(c, m)
    \/ \E c \in Slots : \E m \in SelModels : \E st \in SetNames :
            Quiet /\ getTwoRandomServerHostsForSourceSet(c, m, st)
    \/ \E c \in Slots : AccessReturns(c)
    \/ \E c \in Slots : CatalogReturns(c)
    \/ \E c \in Slots : Resample(c)

FairResample == \A c \in 1..ResampleCalls : WF_vars(Resample(c))

SpecResample == InitResample /\ [][NextResample]_vars /\ FairResample

(***************************************************************************)
(* Properties of the matcher and of normalizeModelName (SpecPure)          *)
(***************************************************************************)
HealthyWith(modelId) == {i \in 1..Len(snap) : snap[i].health /\ snap[i].modelId = modelId}

\* C3: whenever the requested identifier string-equals the modelId of a healthy
\* descriptor of the snapshot, getInferenceServerForModel returns the URL of a
\* descriptor whose modelId equals the request, whatever precedes it in the
\* snapshot.
C3_ExactMatchPrecedence ==
    (phase = "matched" /\ HealthyWith(req) # {})
        => \E i \in HealthyWith(req) : out = snap[i].url

\* C4: for the request "gemma-2-2b" and a snapshot holding a healthy
\* "gemma-2-2b-it" descriptor next to descriptors of other model families,
\* getInferenceServerForModel returns the URL of the "gemma-2-2b-it"
\* descriptor, isModelMatch("gemma-2-2b-it", "gemma-2-2b") being true.
C4_GemmaPartialMatch ==
    (/\ phase = "matched"
     /\ req = "gemma-2-2b"
     /\ HealthyWith("gemma-2-2b-it") # {}
     /\ HealthyWith("gemma-2-2b") = {})
        => /\ isModelMatch("gemma-2-2b-it", "gemma-2-2b")
           /\ \E i \in HealthyWith("gemma-2-2b-it") : out = snap[i].url

\* C5: normalizeModelName is idempotent: normalizing a normalized name gives
\* the same name again.
C5_NormalizeIdempotent ==
    phase = "renormalized" => norm2 = norm1

(***************************************************************************)
(* Properties of the discovery cache (SpecCache, SpecAdmin)                *)
(***************************************************************************)
Started(c) == calls[c].pc # "idle"

\* the call whose cycle wrote the cache that call d read when it started
Writer(d) == calls[d].seen

\* call d started less than the TTL after the start of the cycle of call c
WithinTTL(c, d) == calls[d].now - calls[c].now < DISCOVERY_CACHE_TTL

\* C1 as stated: of two calls with no clearInferenceServerCache between them,
\* the second starting less than the TTL after the first, the second issues no
\* probe; and a call that starts at least the TTL after the recorded discovery
\* time, or first after a clear, issues a round of probes.
C1_OneRoundWithinTTL ==
    /\ \A c, d \in Slots :
        (/\ c < d /\ Started(c) /\ Started(d)
         /\ calls[c].epoch = calls[d].epoch
         /\ calls[c].probes = portsToCheck
         /\ WithinTTL(c, d))
            => calls[d].probes = <<>>
    /\ \A d \in Slots :
        (Started(d) /\ (Writer(d) = 0 \/ ~WithinTTL(Writer(d), d)))
            => calls[d].probes = portsToCheck

\* C1 amended: a call that starts while the cache holds a non-empty snapshot
\* written by a completed cycle that started less than the TTL before it issues
\* no probe and returns that snapshot; a call that starts when no cycle has
\* completed since the start or the last clear (an earlier cycle may be in
\* flight), or at least the TTL after the start of the cycle that wrote the
\* cache, issues one probe per port of portsToCheck.
C1_CachedRoundWithinTTL ==
    \A d \in Slots : Started(d) =>
        /\ (/\ Writer(d) # 0
            /\ calls[Writer(d)].servers # <<>>
            /\ WithinTTL(Writer(d), d))
                => /\ calls[d].probes = <<>>
                   /\ calls[d].snapshot = calls[Writer(d)].servers
        /\ (Writer(d) = 0 \/ ~WithinTTL(Writer(d), d))
                => calls[d].probes = portsToCheck

\* a call served from the cache half a TTL after the cycle that wrote it
C1_Witness ==
    \E d \in Slots :
        /\ calls[d].pc = "done"
        /\ Writer(d) # 0
        /\ calls[Writer(d)].servers # <<>>
        /\ calls[d].now - calls[Writer(d)].now = TickStep
        /\ calls[d].probes = <<>>

\* C2 as stated: after a cycle that found no live server, a call that starts
\* less than the TTL after that cycle returns the empty snapshot without
\* issuing a probe.
C2_EmptyResultSticky ==
    \A d \in Slots :
        (/\ Started(d)
         /\ Writer(d) # 0
         /\ calls[Writer(d)].servers = <<>>
         /\ WithinTTL(Writer(d), d))
            => /\ calls[d].probes = <<>>
               /\ calls[d].pc = "done" /\ calls[d].snapshot = <<>>

\* C2 amended: an empty result is stored but never served: a call that starts
\* after a cycle that found no live server, however soon, issues one probe per
\* port of portsToCheck.
C2_EmptyResultReprobed ==
    \A d \in Slots :
        (/\ Started(d)
         /\ Writer(d) # 0
         /\ calls[Writer(d)].servers = <<>>)
            => calls[d].probes = portsToCheck

\* a call that started within the TTL of a cycle that found nothing, and probed
C2_Witness ==
    \E d \in Slots :
        /\ Started(d)
        /\ Writer(d) # 0
        /\ calls[Writer(d)].servers = <<>>
        /\ WithinTTL(Writer(d), d)
        /\ calls[d].probes = portsToCheck

\* the call whose cycle probed the snapshot that call g returned
Prober(g) == IF calls[g].probes # <<>> THEN g ELSE Writer(g)

\* C6: once a POST {action: "refresh"} has completed, every GET that starts
\* afterwards returns a snapshot probed by a cycle that started no earlier than
\* the refresh (slots are in start order), whatever cycles were in flight when
\* the refresh was requested.
C6_GetAfterRefreshIsFresh ==
    \A g \in Slots :
        (/\ calls[g].op = "GET"
         /\ calls[g].pc = "done"
         /\ calls[g].refreshedBy # 0)
            => Prober(g) >= calls[g].refreshedBy

\* number of clears that preceded the start of the call before call c
EpochBefore(c) == IF c = 1 THEN 0 ELSE calls[c - 1].epoch

\* C7: the first call of discoverInferenceServers that starts after
\* clearInferenceServerCache has returned issues a round of probes, whatever
\* the elapsed time and whatever cycle completes between the clear and the
\* call.
C7_ClearForcesReprobe ==
    \A c \in Slots :
        (Started(c) /\ calls[c].epoch > EpochBefore(c))
            => calls[c].probes = portsToCheck

(***************************************************************************)
(* Properties of the Host Selector (SpecSelect)                            *)
(***************************************************************************)
Denied(c) == ~userCanAccessModelAndSourceSet(calls[c].modelId, calls[c].sourceSetName)

Done(c, op) == calls[c].op = op /\ calls[c].pc = "done"

\* C8: getTwoRandomServerHostsForSourceSet ends with the error "Source set not
\* found." whenever the access check denies the model and source set, in
\* static and in dynamic mode alike; a denied caller gets no host URL.
C8_TwoForSourceSetDenied ==
    \A c \in Slots :
        (Done(c, "getTwoRandomServerHostsForSourceSet") /\ Denied(c))
            => calls[c].result = Throw("Source set not found.")

\* the source set's host list in the catalog
SetHosts(c) == getAllServerHostsForSourceSet(calls[c].modelId, calls[c].sourceSetName)

\* what a call of getOneRandomServerHostForSourceSet has done and returned
OneForSourceSetState(c) ==
    /\ calls[c].pc = "access" => (calls[c].probes = <<>> /\ ~calls[c].queried)
    /\ calls[c].pc \in {"catalog", "probing"} => calls[c].canAccess = TRUE
    /\ (calls[c].pc = "done" /\ Denied(c))
            => /\ calls[c].result = RetNull
               /\ calls[c].probes = <<>>
               /\ ~calls[c].queried
    /\ (calls[c].pc = "done" /\ ~Denied(c) /\ ~USE_LOCALHOST_INFERENCE)
            => /\ calls[c].result = RetNull <=> Len(SetHosts(c)) = 0
               /\ calls[c].result # RetNull
                    => /\ calls[c].result.tag = "url"
                       /\ includes(SetHosts(c), calls[c].result.val)
               /\ calls[c].probes = <<>>
    /\ (calls[c].pc = "done" /\ ~Denied(c) /\ USE_LOCALHOST_INFERENCE)
            => /\ calls[c].result.tag = "url"
               /\ calls[c].result.val \notin {Null, ""}
               /\ ~calls[c].queried

\* a step of a denied call of getOneRandomServerHostForSourceSet leaves the
\* discovery cache as it is
DeniedStepKeepsCache ==
    \A c \in Slots :
        (/\ calls'[c] # calls[c]
         /\ calls'[c].op = "getOneRandomServerHostForSourceSet"
         /\ ~userCanAccessModelAndSourceSet(calls'[c].modelId, calls'[c].sourceSetName))
            => UNCHANGED <<_cachedServers, _lastDiscovery>>

\* C9: getOneRandomServerHostForSourceSet asks the access check before anything
\* else in both modes; denied, it returns null, having issued no probe, queried
\* no catalog host and left the discovery cache unchanged; allowed in static
\* mode, it returns a member of the source set's host list, and null exactly
\* when the list is empty; allowed in dynamic mode, it never returns null.
C9_OneForSourceSet ==
    /\ [](\A c \in Slots :
            calls[c].op = "getOneRandomServerHostForSourceSet" => OneForSourceSetState(c))
    /\ [][DeniedStepKeepsCache]_vars

\* a denied call of getOneRandomServerHostForSourceSet has returned in dynamic mode
C9_Witness ==
    \E c \in Slots :
        /\ Done(c, "getOneRandomServerHostForSourceSet")
        /\ Denied(c)
        /\ USE_LOCALHOST_INFERENCE
        /\ calls[c].canAccess = FALSE
        /\ calls[c].result = RetNull

TwoOps == {"getTwoRandomServerHostsForModel", "getTwoRandomServerHostsForSourceSet"}

\* the catalog host list a dual-host call works on
ListOf(c) ==
    IF calls[c].op = "getTwoRandomServerHostsForModel"
    THEN getAllServerHostsForModel(calls[c].modelId)
    ELSE SetHosts(c)

Distinct(list) == {list[i] : i \in 1..Len(list)}

\* C10: in static mode, a dual-host call that has the catalog host list
\* returns two different URLs of the list if the list has at least two distinct
\* URLs, the one URL twice if it has exactly one distinct URL, and ends with
\* the error "No hosts found." if the list is empty.
C10_TwoHostsStatic ==
    \A c \in Slots :
        (/\ ~USE_LOCALHOST_INFERENCE
         /\ calls[c].op \in TwoOps
         /\ calls[c].pc = "done"
         /\ calls[c].queried)
            => LET urls == Distinct(ListOf(c))
                   result == calls[c].result
               IN  /\ urls = {} => result = Throw("No hosts found.")
                   /\ Cardinality(urls) = 1
                        => \E h \in urls : result = Ret("pair", <<h, h>>)
                   /\ Cardinality(urls) >= 2
                        => /\ result.tag = "pair"
                           /\ result.val[1] # result.val[2]
                           /\ {result.val[1], result.val[2]} \subseteq urls

\* a dual-host call has returned two different URLs of a list that holds one
\* of its URLs twice
C10_Witness ==
    \E c \in Slots :
        /\ ~USE_LOCALHOST_INFERENCE
        /\ Done(c, "getTwoRandomServerHostsForSourceSet")
        /\ Cardinality(Distinct(ListOf(c))) >= 2
        /\ Len(ListOf(c)) > Cardinality(Distinct(ListOf(c)))
        /\ calls[c].result.tag = "pair"
        /\ calls[c].result.val[1] # calls[c].result.val[2]

\* C11: in static mode getOneRandomServerHostForSource either ends with the
\* error "Source not found." or returns a host URL of the source's host list,
\* also when the source exists and has no host.
C11_OneForSourceOutcomes ==
    \A c \in Slots :
        (~USE_LOCALHOST_INFERENCE /\ Done(c, "getOneRandomServerHostForSource"))
            => \/ calls[c].result = Throw("Source not found.")
               \/ /\ calls[c].result.tag = "url"
                  /\ includes(calls[c].hosts, calls[c].result.val)

Healthy == {i \in 1..Len(snap) : snap[i].health}

\* C12: getInferenceServerForModel returns null exactly when the snapshot has
\* no healthy descriptor; with a healthy descriptor it returns the URL of a
\* descriptor of the snapshot, whatever identifier is requested.
C12_NullIffNoHealthy ==
    phase = "matched" =>
        /\ out = Null <=> Healthy = {}
        /\ Healthy # {} => \E i \in 1..Len(snap) : out = snap[i].url

\* the request matches no descriptor and the first healthy one is returned
C12_Witness ==
    /\ phase = "matched"
    /\ Healthy # {}
    /\ \A i \in Healthy : ~isModelMatch(snap[i].modelId, req)
    /\ out = snap[1].url

SingleHostOps ==
    {"getOneRandomServerHostForSourceSet", "getOneRandomServerHostForSource",
     "getOneRandomServerHostForModel"}

\* call c of a single-host operation went through
\* getDynamicLocalhostInferenceHost and has returned
ReturnedDynamic(c) ==
    /\ USE_LOCALHOST_INFERENCE
    /\ calls[c].op \in SingleHostOps
    /\ calls[c].pc = "done"
    /\ calls[c].op = "getOneRandomServerHostForSourceSet" => calls[c].canAccess = TRUE

\* C13: in dynamic mode a single-host operation that reaches
\* getDynamicLocalhostInferenceHost returns LOCALHOST_INFERENCE_HOST when
\* discovery gave no live descriptor, and never null, undefined or "".
C13_DefaultHostFallback ==
    \A c \in Slots : ReturnedDynamic(c) =>
        /\ calls[c].result.tag = "url"
        /\ calls[c].result.val \notin {Null, Absent, ""}
        /\ calls[c].snapshot = <<>> => calls[c].result.val = LOCALHOST_INFERENCE_HOST

\* a call probed, found no live server and returned the default host
C13_Witness ==
    \E c \in Slots :
        /\ ReturnedDynamic(c)
        /\ calls[c].probes = portsToCheck
        /\ calls[c].snapshot = <<>>
        /\ calls[c].result = Ret("url", LOCALHOST_INFERENCE_HOST)

\* the ports a discovery cycle is to probe: 5002 and 5005 to 5020
ScannedPorts == {5002} \cup (5005..5020)

\* the probes that the cycle of call c has issued so far are 17, each to a
\* scanned port, in ascending order of the ports: so one for each scanned port
OneProbePerPort(c) ==
    /\ Len(calls[c].probes) = 17
    /\ \A i \in 1..17 : calls[c].probes[i] \in ScannedPorts
    /\ \A i \in 1..16 : calls[c].probes[i] < calls[c].probes[i + 1]

\* C14: every discovery cycle issues exactly one health probe to each of the
\* 17 ports 5002, 5005..5020, none to 5003, 5004 or any other port, and none
\* again later: while it probes and after it has ended, the probes it has
\* issued are these 17.
C14_ProbedPorts ==
    \A c \in Slots : (calls[c].pc = "probing" \/ calls[c].probes # <<>>)
                        => OneProbePerPort(c)

\* a cycle has completed after the answer of a listening server
C14_Witness ==
    \E c \in Slots :
        /\ calls[c].pc = "done"
        /\ Len(calls[c].probes) = 17
        /\ calls[c].servers # <<>>

\* a POST whose body is an object with an action other than "refresh", or with
\* none, has just been answered
RefusedAction ==
    /\ response'.count = response.count + 1
    /\ response'.body.kind = "object"
    /\ response'.body.action # "refresh"

\* C15: a POST whose action is not "refresh" (or is missing) is answered with
\* status 400, leaves _cachedServers and _lastDiscovery as they are and issues
\* no probe.
C15_OtherActionRejected ==
    [][RefusedAction =>
            /\ response'.status = 400
            /\ UNCHANGED <<_cachedServers, _lastDiscovery>>
            /\ \A c \in Slots : calls'[c].probes = calls[c].probes]_vars

\* a POST without action was answered 400 while the cache held a snapshot
C15_Witness ==
    /\ response.count > 0
    /\ response.body = JsonObject(Absent)
    /\ response.status = 400
    /\ _cachedServers # <<>>

\* call c ran a discovery cycle to its end
CycleDone(c) == calls[c].pc = "done" /\ calls[c].probes # <<>>

\* C16: the cached pair is the cleared value ([], 0), or the complete result of
\* one discovery cycle together with the start time of that same cycle,
\* whatever cycles and clears interleave.
C16_CachePairOfOneCycle ==
    \/ _cachedServers = <<>> /\ _lastDiscovery = 0
    \/ \E c \in Slots :
        /\ CycleDone(c)
        /\ _cachedServers = calls[c].servers
        /\ _lastDiscovery = calls[c].now

\* of two overlapping cycles with different results, the one that started
\* first finished last and its result is the cache
C16_Witness ==
    \E c, d \in Slots :
        /\ c < d
        /\ CycleDone(c) /\ CycleDone(d)
        /\ lastWriter = c
        /\ calls[c].servers # <<>>
        /\ calls[d].servers # calls[c].servers
        /\ _cachedServers = calls[c].servers
        /\ _lastDiscovery = calls[c].now

\* indexes of the descriptors of port p in the snapshot of call c
DescriptorsOf(c, p) ==
    {i \in 1..Len(calls[c].snapshot) : calls[c].snapshot[i].port = p}

\* the cycle of call c ended without error and its snapshot holds one healthy
\* descriptor for each port whose probe succeeded, and nothing else
SnapshotOfSuccesses(c) ==
    /\ calls[c].result.tag # "throw"
    /\ calls[c].snapshot = calls[c].servers
    /\ \A i \in 1..Len(calls[c].snapshot) :
            /\ calls[c].snapshot[i].health
            /\ calls[c].snapshot[i].port \in calls[c].succeeded
    /\ \A p \in calls[c].succeeded : Cardinality(DescriptorsOf(c, p)) = 1

\* the cache written by the cycle of call c is the snapshot the cycle returned
StoresWhatItReturns(c) ==
    lastWriter = c => _cachedServers = calls[c].snapshot

\* C17: a discovery cycle ends normally whatever its probes did, and the
\* snapshot it stores and returns holds a descriptor for port p, healthy and
\* once, exactly if the probe of p in that cycle succeeded.
C17_CycleNeverFails ==
    \A c \in Slots :
        CycleDone(c) => (SnapshotOfSuccesses(c) /\ StoresWhatItReturns(c))

\* two cycles over the same server: its probe succeeded in one and failed in
\* the other
C17_Witness ==
    \E c, d \in Slots :
        /\ CycleDone(c) /\ CycleDone(d)
        /\ calls[c].succeeded # {} /\ Len(calls[c].snapshot) = 1
        /\ calls[d].succeeded = {} /\ calls[d].snapshot = <<>>

\* C18: every discovery cycle ends and gives a snapshot whatever the probed
\* servers do, each probe being bounded by its 2-second timer from the
\* connection to the end of the JSON body.
C18_CycleTerminates ==
    \A c \in 1..LiveCalls : (calls[c].pc = "probing") ~> (calls[c].pc = "done")

DigitChars == {"0", "1", "2", "3", "4", "5", "6", "7", "8", "9"}

AllChars(str, chars) == \A i \in 1..Len(str) : CharAt(str, i) \in chars

\* str is scheme://host:port: a scheme of letters, a host without "/" and ":",
\* a port of digits, and nothing after the port
WellFormedUrl(str) ==
    \E i \in 2..Len(str) : \E j \in (i + 4)..(Len(str) - 1) :
        /\ SubSeq(str, i, i + 2) = "://"
        /\ \A k \in 1..(i - 1) : toLowerCaseChar(CharAt(str, k)) \in AlnumChars \ DigitChars
        /\ CharAt(str, j) = ":"
        /\ \A k \in (i + 3)..(j - 1) : CharAt(str, k) \notin {"/", ":"}
        /\ AllChars(SubSeq(str, j + 1, Len(str)), DigitChars)

\* C19: every host URL that an operation of the Host Selector returns, in
\* static and in dynamic mode, has the form scheme://host:port, with no path
\* after the port.
C19_ReturnedUrlsWellFormed ==
    \A c \in Slots : calls[c].pc = "done" =>
        /\ calls[c].result.tag = "url" => WellFormedUrl(calls[c].result.val)
        /\ calls[c].result.tag = "pair"
                => /\ WellFormedUrl(calls[c].result.val[1])
                   /\ WellFormedUrl(calls[c].result.val[2])

\* C20: for every base name, normalizeModelName gives the same result for the
\* base with "-instruct", with "-instruction" and with "-it", so that these
\* identifiers match each other.
C20_InstructSuffixes ==
    phase = "suffixed" =>
        /\ norm1 = out
        /\ norm2 = out
        /\ isModelMatch(name \o "-instruct", name \o "-instruction")

\* call c of getOneRandomServerHostForModel has returned in static mode
OneForModelStatic(c) ==
    ~USE_LOCALHOST_INFERENCE /\ Done(c, "getOneRandomServerHostForModel")

\* C22: in static mode getOneRandomServerHostForModel ends with the error "No
\* hosts found." when the catalog has no host for the model, and otherwise
\* returns the first URL of the catalog's list, which is the first of the
\* de-duplicated list; two calls for the same model return the same.
C22_OneForModelDeterministic ==
    /\ \A c \in Slots : OneForModelStatic(c) =>
            LET list == getAllServerHostsForModel(calls[c].modelId)
            IN  IF Len(list) = 0
                THEN calls[c].result = Throw("No hosts found.")
                ELSE /\ calls[c].result = Ret("url", list[1])
                     /\ list[1] = unique(list)[1]
    /\ \A c, d \in Slots :
            (OneForModelStatic(c) /\ OneForModelStatic(d)
                /\ calls[c].modelId = calls[d].modelId)
                    => calls[c].result = calls[d].result

\* a call has returned the first URL of a list that holds two different URLs
\* and one of them twice
C22_Witness ==
    \E c \in Slots :
        /\ OneForModelStatic(c)
        /\ LET list == getAllServerHostsForModel(calls[c].modelId)
           IN  /\ Len(list) = 3
               /\ Cardinality(Distinct(list)) = 2
               /\ calls[c].result = Ret("url", list[1])

\* the operations that take a model or a source, and no source set
ModelOrSourceOps ==
    {"getOneRandomServerHostForModel", "getOneRandomServerHostForSource",
     "getTwoRandomServerHostsForModel"}

\* no call has issued a probe and the discovery cache is as the module's load
\* left it
NoDiscovery ==
    /\ \A c \in Slots : calls[c].probes = <<>> /\ calls[c].pc # "probing"
    /\ _cachedServers = <<>> /\ _lastDiscovery = 0 /\ lastWriter = 0

\* call c has not asked the host catalog and does not wait for it
NoCatalogQuery(c) ==
    /\ ~calls[c].queried
    /\ calls[c].pc \notin {"catalog", "source"}
    /\ calls[c].hosts = <<>>

\* C26: in static mode no operation of the Host Selector issues a health probe
\* or changes the discovery cache; in dynamic mode
\* getOneRandomServerHostForModel, getOneRandomServerHostForSource and
\* getTwoRandomServerHostsForModel never query the host catalog.
C26_ModesKeptApart ==
    /\ ~USE_LOCALHOST_INFERENCE => NoDiscovery
    /\ USE_LOCALHOST_INFERENCE =>
            \A c \in Slots : calls[c].op \in ModelOrSourceOps => NoCatalogQuery(c)

\* in static mode a call has returned a URL of the catalog
C26_Witness ==
    \E c \in Slots :
        /\ ~USE_LOCALHOST_INFERENCE
        /\ Done(c, "getTwoRandomServerHostsForModel")
        /\ calls[c].queried
        /\ calls[c].result.tag = "pair"
        /\ NoDiscovery

\* call c is in the while loop of a dual-host operation
InLoop(c) == calls[c].pc = "resample"

\* C27: the while loop of the dual-host operations is entered only with a
\* de-duplicated host list of at least 2 entries, and once entered it ends
\* with the call returning, a second index that differs from the first being
\* drawn eventually.
C27_ResampleTerminates ==
    /\ [](\A c \in 1..ResampleCalls : InLoop(c) => Len(calls[c].hosts) >= 2)
    /\ \A c \in 1..ResampleCalls : InLoop(c) ~> (calls[c].pc = "done")

\* a call is in the loop: its first two draws were the same index of a list of
\* two different URLs
C27_Witness ==
    \E c \in Slots :
        /\ InLoop(c)
        /\ Len(calls[c].hosts) = 2
        /\ calls[c].hosts[1] # calls[c].hosts[2]
        /\ calls[c].result = NoRet

(***************************************************************************)
(* The matcher's order of preference (SpecPure)                            *)
(***************************************************************************)
\* indexes of the healthy descriptors of the snapshot that isModelMatch accepts
\* for the request
HealthyMatches == {i \in Healthy : isModelMatch(snap[i].modelId, req)}

\* the descriptors of the snapshot with the URL that was returned
Chosen == {i \in 1..Len(snap) : snap[i].url = out}

EntersDiscovery(c) == calls[c].pc = "idle" /\ calls'[c].pc \in {"probing", "done"}

\* what call c, entering in this step, finds in the cache: a refresh has
\* cleared it in the same turn
CachedAtEntry(c) == IF calls'[c].op = "refresh" THEN <<>> ELSE _cachedServers
LastAtEntry(c) == IF calls'[c].op = "refresh" THEN 0 ELSE _lastDiscovery

\* the cache is empty or at least the TTL old for call c, entering in this step
Stale(c) ==
    Len(CachedAtEntry(c)) = 0 \/ calls'[c].now - LastAtEntry(c) >= DISCOVERY_CACHE_TTL

\* call c, entering in this step, is served from the cache: it returns the
\* cached snapshot, which was created less than the TTL before, and the cache
\* stays as it is
ServedFromCache(c) ==
    /\ calls'[c].pc = "done"
    /\ calls'[c].snapshot = _cachedServers
    /\ calls'[c].result = Ret("servers", _cachedServers)
    /\ calls'[c].now - _lastDiscovery < DISCOVERY_CACHE_TTL
    /\ UNCHANGED <<_cachedServers, _lastDiscovery>>

\* C24: a call of discoverInferenceServers issues its probes exactly if, when it
\* starts, the cache is empty or now - _lastDiscovery >= TTL; otherwise it
\* issues none, returns the cached snapshot, created less than the TTL before
\* the call, and leaves _cachedServers and _lastDiscovery as they are.
C24_ProbesIffStale ==
    [][\A c \in Slots : EntersDiscovery(c) =>
            /\ calls'[c].now = clock'
            /\ Stale(c) => calls'[c].probes = portsToCheck
            /\ ~Stale(c) => (calls'[c].probes = <<>> /\ ServedFromCache(c))]_vars

\* a call is served from the cache half a TTL after the cycle that wrote it,
\* and the recorded discovery time is still that of the cycle
C24_Witness ==
    \E c, d \in Slots :
        /\ CycleDone(c)
        /\ calls[d].pc = "done" /\ calls[d].probes = <<>>
        /\ calls[d].seen = c
        /\ calls[d].now = calls[c].now + TickStep
        /\ calls[d].snapshot = calls[c].servers
        /\ _lastDiscovery = calls[c].now

(***************************************************************************)
(* Properties of the dual-host operations in dynamic mode (SpecPair)       *)
(***************************************************************************)
\* indexes of the descriptors of the snapshot of call c that match its request
Matching(c) ==
    {i \in 1..Len(calls[c].snapshot) :
        isModelMatch(calls[c].snapshot[i].modelId, calls[c].modelId)}

DescriptorSet(c) == {calls[c].snapshot[i] : i \in 1..Len(calls[c].snapshot)}

\* C28: two calls of the dynamic selector for the same model identifier whose
\* snapshots hold the same descriptors return the same URL, in whatever order
\* the probes of the two cycles completed.
C28_RoutingIgnoresOrder ==
    \A c, d \in Slots :
        (/\ Done(c, "getOneRandomServerHostForModel")
         /\ Done(d, "getOneRandomServerHostForModel")
         /\ calls[c].modelId = calls[d].modelId
         /\ DescriptorSet(c) = DescriptorSet(d))
            => calls[c].result = calls[d].result

(***************************************************************************)
(* Properties of the descriptors (SpecHealth)                              *)
(***************************************************************************)
\* a field of the health body that || takes: there and not the empty string
Truthy(field) == field \notin {Absent, ""}

\* the health body behind the i-th descriptor that call c has pushed
BodyOf(c, i) == listening[calls[c].servers[i].port]

\* every probe of call c that got an ok answer with a JSON object has its
\* descriptor
NoneDropped(c) ==
    \A p \in calls[c].succeeded :
        \E i \in 1..Len(calls[c].servers) : calls[c].servers[i].port = p

\* C21 as stated: the modelId of a descriptor is the value of model_id when the
\* body has that field, otherwise the value of model when the body has that
\* field, otherwise "unknown"; and a successful probe whose body has neither
\* field has its descriptor too.
C21_ModelIdWhenPresent ==
    \A c \in Slots :
        /\ \A i \in 1..Len(calls[c].servers) :
            LET modelId == calls[c].servers[i].modelId
                body == BodyOf(c, i)
            IN  /\ body.model_id # Absent => modelId = body.model_id
                /\ (body.model_id = Absent /\ body.model # Absent) => modelId = body.model
                /\ (body.model_id = Absent /\ body.model = Absent) => modelId = "unknown"
        /\ NoneDropped(c)

\* C21 amended: the modelId of a descriptor is the value of model_id when that
\* field is there and not empty, otherwise the value of model when that field
\* is there and not empty, otherwise "unknown"; and a successful probe whose
\* body is an object without a usable field has its descriptor too.
C21_ModelIdWhenNonEmpty ==
    \A c \in Slots :
        /\ \A i \in 1..Len(calls[c].servers) :
            LET modelId == calls[c].servers[i].modelId
                body == BodyOf(c, i)
            IN  /\ Truthy(body.model_id) => modelId = body.model_id
                /\ (~Truthy(body.model_id) /\ Truthy(body.model)) => modelId = body.model
                /\ (~Truthy(body.model_id) /\ ~Truthy(body.model)) => modelId = "unknown"
        /\ NoneDropped(c)

\* a cycle has ended with the descriptor "unknown" of a server whose body has
\* neither field
C21_Witness ==
    \E c \in Slots :
        /\ calls[c].pc = "done"
        /\ \E i \in 1..Len(calls[c].servers) :
            /\ BodyOf(c, i) = [model_id |-> Absent, model |-> Absent]
            /\ calls[c].servers[i].modelId = "unknown"

=============================================================================
